---------------------------- MODULE Spec2Model ----------------------------
(***************************************************************************)
(* Background analysis pipeline of the image-gallery backend:              *)
(*   SimpleAIProcessor   (backend/app/services/ai_processing.py)           *)
(*   AzureVisionService  (backend/app/services/azure_vision.py)            *)
(*   upload_image, retry_ai_processing (backend/app/api/images.py)         *)
(*   detailed_health_check (backend/app/api/health.py)                     *)
(* and the similarity search                                               *)
(*   find_similar_images (backend/app/api/search.py).                      *)
(*                                                                         *)
(* The process is one asyncio event loop.  A coroutine runs without        *)
(* interruption from one suspension point to the next, so one action of    *)
(* this module is one such stretch of code.  The only suspension points of *)
(* the pipeline are asyncio.sleep in _check_rate_limit and the httpx POST  *)
(* in analyze_image / analyze_image_blob: the supabase client is           *)
(* synchronous, so the _update_image_* coroutines never yield.             *)
(*                                                                         *)
(* Time is measured in whole seconds relative to the first state.          *)
(***************************************************************************)
EXTENDS Integers, Sequences, FiniteSets, Bags, TLC

(* ------------------------------ bounds --------------------------------- *)
\* number of image rows upload_image may create in a run, beyond those of
\* the initial state
NumUploads == 1
\* number of HTTP requests (upload, retry, health, blob analysis) a run serves
MaxServed == 2
\* number of persistence writes that fail in a run
MaxDbFailures == 1
\* number of POSTs the vision API answers in a run
MaxAnswers == 2
\* number of times the clock advances in a run
MaxTicks == 1
\* number of direct adapter calls (self-test, blob analysis) outstanding at once
MaxDirect == 1
\* longest tag name, longest caption, longest tag list and longest color
\* list of an upstream payload
MaxNameLen == 51
MaxDescLen == 201
MaxTagCount == 11
MaxColorCount == 6
\* length up to which every list over the sample entries is a payload
MaxListLen == 2
MaxRows == 3
MaxLimit == 2

(* ------------------------- program constants --------------------------- *)
max_concurrent == 5
MAX_REQUESTS_PER_MONTH == 4000
MAX_REQUESTS_PER_DAY == 150
MAX_REQUESTS_PER_MINUTE == 20
\* timedelta(minutes=1) and timedelta(hours=1), in seconds
Minute == 60
Hour == 3600

\* the rows a full registry holds, and the rows uploaded during the run
InFlight == 1..max_concurrent
NewImages == (max_concurrent + 1)..(max_concurrent + NumUploads)
Images == InFlight \cup NewImages
\* analysis results the vision API may produce (tags, description, colors)
Results == {"resultA", "resultB"}
\* the AI columns of a row: unset, or set from a result
NoResult == [fields |-> "null"]
StoredResults == {[fields |-> res] : res \in Results}
\* the AIProcessingResult the adapter returns: the three fields above and the
\* confidence map
AIResult(res) == [fields |-> res, confidence_scores |-> "scores"]
\* as if the update statement stored the whole result
ResultColumnsAll(ai_result) == ai_result
\* the columns _update_image_with_results stores: ai_tags, ai_description,
\* dominant_colors
ResultColumns(ai_result) == [fields |-> ai_result.fields]
\* the image argument of operations that concern no image row
NoImage == 0

VARIABLES
    db_status,          \* images.processing_status of each row ("none": no row)
    db_ai,              \* images.ai_tags/ai_description/dominant_colors of each row
    processing_tasks,   \* keys of SimpleAIProcessor.processing_tasks
    request_times,      \* AzureVisionService.request_times
    monthly_usage,      \* AzureVisionService.monthly_usage
    daily_usage,        \* AzureVisionService.daily_usage
    now,                \* datetime.now()
    tasks,              \* bag of suspended or scheduled coroutines
    released,           \* times at which a POST was sent to the vision API
    processing_started, \* images whose upload response said processing_started=True
    last,               \* the step just taken and the value it returned
    wrote,              \* processing_status values the step just taken stored, in order
    finish,             \* the order in which the step just taken wrote the final
                        \* status ("status") and dropped the registry entry ("entry")
    served,             \* HTTP requests served so far
    ticks,              \* clock advances so far
    answered,           \* POSTs answered so far
    db_failures,        \* persistence writes that have failed so far
    data,               \* the JSON payload of the answer being processed
    ai_result,          \* << >>, or the AIProcessingResult made from data
    db_images,          \* the rows of table images a similarity search reads
    query,              \* the similarity search being served
    response            \* << >>, or the answer to query

vars == <<db_status, db_ai, processing_tasks, request_times, monthly_usage,
          daily_usage, now, tasks, released, processing_started, last,
          wrote, finish, served, ticks, answered, db_failures, data,
          ai_result,
          db_images, query, response>>

quota == <<request_times, monthly_usage, daily_usage>>

\* what _process_azure_response reads and returns
analysis == <<data, ai_result>>

\* what find_similar_images reads and returns
search == <<db_images, query, response>>

\* no similarity search is being served
NoQuery == [image_id |-> NoImage, limit |-> 0, similarity_threshold |-> 0]
NoSearch ==
    /\ db_images = << >>
    /\ query = NoQuery
    /\ response = << >>

(* ------------------------------ helpers -------------------------------- *)
Rep(n, x) == [k \in 1..n |-> x]

Range(s) == {s[k] : k \in 1..Len(s)}

Min(S) == CHOOSE x \in S : \A y \in S : x <= y

Live == BagToSet(tasks)

Spawn(bag, r) == bag (+) SetToBag({r})

Retire(bag, r) == bag (-) SetToBag({r})

Task(via, i, pc, t0, wake) ==
    [via |-> via, img |-> i, pc |-> pc, t0 |-> t0, wake |-> wake]

\* as if a write that raised were repeated until it lands
DbWriteRetried(st, i, v, ok) == [st EXCEPT ![i] = v]

\* table('images').update(...).execute() inside try/except: the write either
\* lands or raises and is logged
DbWrite(st, i, v, ok) == IF ok THEN [st EXCEPT ![i] = v] ELSE st

\* the outcomes a write may have after f writes of this step have failed
WriteOutcomes(f) == IF db_failures + f < MaxDbFailures THEN BOOLEAN ELSE {TRUE}

Cost(ok) == IF ok THEN 0 ELSE 1

\* the values stored so far by the running step, after one more write
Stored(w, v, ok) == IF ok THEN Append(w, v) ELSE w

(* ------------------- AzureVisionService._check_rate_limit --------------- *)
\* "Clean old request times"
Pruned(times, t) == SelectSeq(times, LAMBDA x : t - x < Hour)

MinuteRequests(times, t) == Len(SelectSeq(times, LAMBDA x : t - x < Minute))

\* oldest_request + timedelta(minutes=1) - now
WaitTime(times, t) == Min(Range(times)) + Minute - t

\* as if the daily ceiling were not checked
CheckRateLimitMonthlyOnly(times, mu, du, t) ==
    LET pr == Pruned(times, t) IN
    IF mu >= MAX_REQUESTS_PER_MONTH
    THEN [out |-> "monthly", times |-> pr, wake |-> t]
    ELSE IF MinuteRequests(pr, t) >= MAX_REQUESTS_PER_MINUTE
            /\ WaitTime(pr, t) > 0
    THEN [out |-> "sleep", times |-> pr, wake |-> t + WaitTime(pr, t)]
    ELSE [out |-> "go", times |-> pr, wake |-> t]

\* The part of _check_rate_limit that runs before it records the request:
\* the pruned list and what the caller does next.
CheckRateLimit(times, mu, du, t) ==
    LET pr == Pruned(times, t) IN
    IF mu >= MAX_REQUESTS_PER_MONTH
    THEN [out |-> "monthly", times |-> pr, wake |-> t]
    ELSE IF du >= MAX_REQUESTS_PER_DAY
    THEN [out |-> "daily", times |-> pr, wake |-> t]
    ELSE IF MinuteRequests(pr, t) >= MAX_REQUESTS_PER_MINUTE
            /\ WaitTime(pr, t) > 0
    THEN [out |-> "sleep", times |-> pr, wake |-> t + WaitTime(pr, t)]
    ELSE [out |-> "go", times |-> pr, wake |-> t]

\* as if the request were recorded without being counted
RecordRequestUncounted(times, t) ==
    /\ request_times' = Append(times, t)
    /\ UNCHANGED <<monthly_usage, daily_usage>>

\* as if the time were read again when the request is recorded
RecordRequestAtRelease(times, t) ==
    /\ request_times' = Append(times, now)
    /\ monthly_usage' = monthly_usage + 1
    /\ daily_usage' = daily_usage + 1

\* "Record this request": t is the local `now` taken on entry
RecordRequest(times, t) ==
    /\ request_times' = Append(times, t)
    /\ monthly_usage' = monthly_usage + 1
    /\ daily_usage' = daily_usage + 1

\* as if _check_rate_limit were called inside the try block of analyze_image:
\* the quota failure would come out as "Image analysis failed: ..."
QuotaErrorWrapped(out) == "analysis_failed"

\* the message of the exception analyze_image lets escape when
\* _check_rate_limit raises: the call is made before the try block
QuotaError(out) == out

(* ------------------------- what a step returns ------------------------- *)
\* who ran (the caller a coroutine works for, or the clock), for which image,
\* and what was returned ("none": the step ended in a suspension, not in a
\* return)
Step(via, i, ret) == [via |-> via, img |-> i, ret |-> ret]

\* outcomes of the POST: a 2xx answer with a well-formed payload, an
\* httpx.HTTPError (timeout, connection error, non-2xx status), or any other
\* exception (malformed payload)
NetOutcomes == {"ok", "api_error", "analysis_failed"}

\* callers that go through process_image, and callers that call the adapter
\* directly
PipelineVias == {"background", "retry"}
DirectVias == {"health", "blob"}

Sleepers == {r \in Live : r.pc = "sleeping"}

Direct == {r \in Live : r.via \in DirectVias}

(* --------------------- SimpleAIProcessor.process_image ------------------ *)
\* as if the duplicate check were missing
AlreadyProcessingNever(i) == FALSE

\* "Check if we're already processing this image"
AlreadyProcessing(i) == i \in processing_tasks

\* as if the limit were compared with > instead of >=
AtCapacityLate == Cardinality(processing_tasks) > max_concurrent

\* as if the limit check were missing
AtCapacityNever == FALSE

\* "Check concurrent processing limit"
AtCapacity == Cardinality(processing_tasks) >= max_concurrent

\* as if the except block did not drop the registry entry
ExceptHandlerKeepsEntry(via, i, rest, st, f, w, err) ==
    \E ok \in WriteOutcomes(f) :
        /\ processing_tasks' = processing_tasks \cup {i}
        /\ db_status' = DbWrite(st, i, "failed", ok)
        /\ wrote' = Stored(w, "failed", ok)
        /\ finish' = <<"status">>
        /\ db_failures' = db_failures + f + Cost(ok)
        /\ tasks' = rest
        /\ last' = Step(via, i, err)
        /\ UNCHANGED db_ai

\* the except block: drop the registry entry, then _update_image_with_error
ExceptHandler(via, i, rest, st, f, w, err) ==
    \E ok \in WriteOutcomes(f) :
        /\ processing_tasks' = processing_tasks \ {i}
        /\ db_status' = DbWrite(st, i, "failed", ok)
        /\ wrote' = Stored(w, "failed", ok)
        /\ finish' = <<"entry", "status">>
        /\ db_failures' = db_failures + f + Cost(ok)
        /\ tasks' = rest
        /\ last' = Step(via, i, err)
        /\ UNCHANGED db_ai

\* as if a rejection were raised instead of returned: the except block would
\* drop the entry of the task in flight and mark the image failed
RejectByRaise(via, i, rest, st0, f, w, why) ==
    /\ ExceptHandler(via, i, rest, st0, f, w, why)
    /\ UNCHANGED <<quota, released>>

\* a rejected call returns before it touches anything
Reject(via, i, rest, st0, f, w, why) ==
    /\ db_status' = st0
    /\ wrote' = w
    /\ finish' = << >>
    /\ db_failures' = db_failures + f
    /\ tasks' = rest
    /\ last' = Step(via, i, why)
    /\ UNCHANGED <<db_ai, processing_tasks, quota, released>>

\* process_image from its first line to its first suspension point (or to its
\* return).  rest: the coroutines other than this one; st0: the status column
\* when process_image is entered; f: writes of this step that already failed;
\* w: the values this step has stored already.
ProcessImage(via, i, rest, st0, f, w) ==
    IF AlreadyProcessing(i) THEN Reject(via, i, rest, st0, f, w, "duplicate")
    ELSE IF AtCapacity THEN Reject(via, i, rest, st0, f, w, "capacity")
    ELSE
      \E okp \in WriteOutcomes(f) :
        LET st1 == DbWrite(st0, i, "processing", okp)
            f1 == f + Cost(okp)
            w1 == Stored(w, "processing", okp)
            chk == CheckRateLimit(request_times, monthly_usage, daily_usage, now)
        IN
        CASE chk.out \in {"monthly", "daily"} ->
                /\ request_times' = chk.times
                /\ UNCHANGED <<monthly_usage, daily_usage, released>>
                /\ ExceptHandler(via, i, rest, st1, f1, w1, QuotaError(chk.out))
          [] chk.out = "sleep" ->
                /\ request_times' = chk.times
                /\ UNCHANGED <<monthly_usage, daily_usage, released, db_ai>>
                /\ processing_tasks' = processing_tasks \cup {i}
                /\ db_status' = st1
                /\ wrote' = w1
                /\ finish' = << >>
                /\ db_failures' = db_failures + f1
                /\ tasks' = Spawn(rest, Task(via, i, "sleeping", now, chk.wake))
                /\ last' = Step(via, i, "none")
          [] chk.out = "go" ->
                /\ RecordRequest(chk.times, now)
                /\ released' = Append(released, now)
                /\ UNCHANGED db_ai
                /\ processing_tasks' = processing_tasks \cup {i}
                /\ db_status' = st1
                /\ wrote' = w1
                /\ finish' = << >>
                /\ db_failures' = db_failures + f1
                /\ tasks' = Spawn(rest, Task(via, i, "request", 0, 0))
                /\ last' = Step(via, i, "none")

(* ------------------------------ operations ----------------------------- *)
\* upload_image from the insert of the row to the response: the row is
\* created pending, process_image_background creates the task and returns
UploadImage ==
    /\ UNCHANGED <<analysis, search>>
    /\ served < MaxServed
    /\ \E i \in NewImages :
        /\ db_status[i] = "none"
        /\ \A j \in NewImages : j < i => db_status[j] # "none"
        /\ db_status' = [db_status EXCEPT ![i] = "pending"]
        /\ tasks' = Spawn(tasks, Task("background", i, "scheduled", 0, 0))
        /\ processing_started' = processing_started \cup {i}
        /\ last' = Step("background", i, "started")
        /\ wrote' = <<"pending">>
        /\ finish' = << >>
    /\ served' = served + 1
    /\ UNCHANGED <<db_ai, processing_tasks, quota, now, released, ticks,
                   answered, db_failures>>

\* the event loop runs the first stretch of a task made by create_task
StartBackground ==
    /\ UNCHANGED <<analysis, search>>
    /\ \E r \in Live :
        /\ r.pc = "scheduled"
        /\ ProcessImage(r.via, r.img, Retire(tasks, r),
                        db_status, 0, << >>)
    /\ UNCHANGED <<now, processing_started, served, ticks, answered>>

\* as if retry_failed_processing did not reset the status
ResetStatusSkipped(i, ok) == [st |-> db_status, w |-> << >>]

\* "Reset status to pending first": the status column and the values stored
\* after this write
ResetStatus(i, ok) ==
    [st |-> DbWrite(db_status, i, "pending", ok),
     w |-> Stored(<< >>, "pending", ok)]

\* retry_ai_processing -> retry_failed_processing: reset the status to
\* pending, then process_image, all before the first suspension point
RetryProcessing ==
    /\ UNCHANGED <<analysis, search>>
    /\ served < MaxServed
    /\ \E i \in Images :
        /\ db_status[i] # "none"
        /\ \E ok \in WriteOutcomes(0) :
             ProcessImage("retry", i, tasks, ResetStatus(i, ok).st, Cost(ok),
                          ResetStatus(i, ok).w)
    /\ served' = served + 1
    /\ UNCHANGED <<now, processing_started, ticks, answered>>

\* a direct call of the adapter up to its first suspension point:
\* test_connection (via "health", run by detailed_health_check) or
\* analyze_image_blob (via "blob")
DirectCall(via) ==
    /\ UNCHANGED <<analysis, search>>
    /\ served < MaxServed
    /\ Cardinality(Direct) < MaxDirect
    /\ LET chk == CheckRateLimit(request_times, monthly_usage, daily_usage, now)
       IN
       CASE chk.out \in {"monthly", "daily"} ->
               /\ request_times' = chk.times
               /\ UNCHANGED <<monthly_usage, daily_usage, released, tasks>>
               /\ last' = Step(via, NoImage,
                               IF via = "health" THEN "false"
                               ELSE QuotaError(chk.out))
         [] chk.out = "sleep" ->
               /\ request_times' = chk.times
               /\ UNCHANGED <<monthly_usage, daily_usage, released>>
               /\ tasks' = Spawn(tasks, Task(via, NoImage, "sleeping", now, chk.wake))
               /\ last' = Step(via, NoImage, "none")
         [] chk.out = "go" ->
               /\ RecordRequest(chk.times, now)
               /\ released' = Append(released, now)
               /\ tasks' = Spawn(tasks, Task(via, NoImage, "request", 0, 0))
               /\ last' = Step(via, NoImage, "none")
    /\ served' = served + 1
    /\ wrote' = << >>
    /\ finish' = << >>
    /\ UNCHANGED <<db_status, db_ai, processing_tasks, now, processing_started,
                   ticks, answered, db_failures>>

HealthCheck == DirectCall("health")

AnalyzeImageBlob == DirectCall("blob")

\* asyncio.sleep(wait_time) returns: the rest of _check_rate_limit records
\* the request under the `now` taken on entry, then the POST is sent
WakeUp ==
    /\ UNCHANGED <<analysis, search>>
    /\ \E r \in Sleepers :
        /\ now >= r.wake
        /\ RecordRequest(request_times, r.t0)
        /\ released' = Append(released, now)
        /\ tasks' = Spawn(Retire(tasks, r), Task(r.via, r.img, "request", 0, 0))
        /\ last' = Step(r.via, r.img, "none")
    /\ wrote' = << >>
    /\ finish' = << >>
    /\ UNCHANGED <<db_status, db_ai, processing_tasks, now, processing_started,
                   served, ticks, answered, db_failures>>

\* the POST of a pipeline task returns or raises: process_image runs to its end
PipelineAnswer ==
    /\ UNCHANGED <<analysis, search>>
    /\ answered' = answered + 1
    /\ \E r \in Live :
        /\ r.pc = "request"
        /\ r.via \in PipelineVias
        /\ \E out \in NetOutcomes :
            IF out = "ok"
            THEN \E res \in Results, ok \in WriteOutcomes(0) :
                    \* _update_image_with_results: one update statement
                    /\ db_status' = DbWrite(db_status, r.img, "completed", ok)
                    /\ db_ai' = DbWrite(db_ai, r.img,
                                        ResultColumns(AIResult(res)), ok)
                    /\ wrote' = Stored(<< >>, "completed", ok)
                    /\ finish' = <<"status", "entry">>
                    /\ db_failures' = db_failures + Cost(ok)
                    /\ processing_tasks' = processing_tasks \ {r.img}
                    /\ tasks' = Retire(tasks, r)
                    /\ last' = Step(r.via, r.img, "ok")
            ELSE ExceptHandler(r.via, r.img, Retire(tasks, r), db_status, 0,
                               << >>, out)
    /\ UNCHANGED <<quota, now, released, processing_started, served, ticks>>

\* ... within the answers a run observes
PipelineResponse ==
    /\ answered < MaxAnswers
    /\ PipelineAnswer

\* the POST of a direct call returns or raises
DirectAnswer ==
    /\ UNCHANGED <<analysis, search>>
    /\ answered' = answered + 1
    /\ \E r \in Live :
        /\ r.pc = "request"
        /\ r.via \in DirectVias
        /\ \E out \in NetOutcomes :
            /\ tasks' = Retire(tasks, r)
            /\ last' = Step(r.via, NoImage,
                            IF r.via = "health" /\ out # "ok" THEN "false" ELSE out)
    /\ wrote' = << >>
    /\ finish' = << >>
    /\ UNCHANGED <<db_status, db_ai, processing_tasks, quota, now, released,
                   processing_started, served, ticks, db_failures>>

\* ... within the answers a run observes
DirectResponse ==
    /\ answered < MaxAnswers
    /\ DirectAnswer

\* time passes; a sleeping coroutine is woken when its delay has elapsed
TickSteps == {1, Hour} \cup {r.wake - now : r \in Sleepers}

Tick ==
    /\ UNCHANGED <<analysis, search>>
    /\ ticks < MaxTicks
    /\ \E d \in TickSteps :
        /\ d > 0
        /\ \A r \in Sleepers : now + d <= r.wake
        /\ now' = now + d
    /\ ticks' = ticks + 1
    /\ last' = Step("clock", NoImage, "none")
    /\ wrote' = << >>
    /\ finish' = << >>
    /\ UNCHANGED <<db_status, db_ai, processing_tasks, quota, tasks, released,
                   processing_started, served, answered, db_failures>>

\* the delay of the sleeper that is due first elapses
Elapse ==
    /\ UNCHANGED <<analysis, search>>
    /\ Sleepers # {}
    /\ \E r \in Sleepers :
        /\ r.wake > now
        /\ \A o \in Sleepers : r.wake <= o.wake
        /\ now' = r.wake
    /\ last' = Step("clock", NoImage, "none")
    /\ wrote' = << >>
    /\ finish' = << >>
    /\ UNCHANGED <<db_status, db_ai, processing_tasks, quota, tasks, released,
                   processing_started, served, ticks, answered, db_failures>>

(* ------------------------------ initial state --------------------------- *)
\* The state after construction is `fresh`: empty registry, empty
\* request_times, counters 0 (SimpleAIProcessor.__init__,
\* AzureVisionService.__init__).  The ceilings of the tracker are far from it
\* (MAX_REQUESTS_PER_DAY admissions), so a run may also start from a state the
\* process reaches later in its life:
\*   lastcall - MAX_REQUESTS_PER_DAY - 1 calls served, the last
\*              MAX_REQUESTS_PER_MINUTE of them this very second and the
\*              others more than an hour ago (pruned);
\*   stale    - one call Minute - 1 seconds ago, MAX_REQUESTS_PER_MINUTE - 1
\*              calls this second;
\*   spent    - MAX_REQUESTS_PER_DAY calls served more than an hour ago and
\*              one refused since (the refused check pruned the list).
\* In all of them every recorded call was sent when it was recorded, no
\* image row exists and no coroutine is outstanding.
Histories ==
    { [times |-> << >>, used |-> 0],
      [times |-> Rep(MAX_REQUESTS_PER_MINUTE, 0), used |-> MAX_REQUESTS_PER_DAY - 1],
      [times |-> <<1 - Minute>> \o Rep(MAX_REQUESTS_PER_MINUTE - 1, 0),
       used |-> MAX_REQUESTS_PER_MINUTE],
      [times |-> << >>, used |-> MAX_REQUESTS_PER_DAY] }

\* what every run starts with: the clock, the budgets, no answer yet
InitRun ==
    /\ db_ai = [i \in Images |-> NoResult]
    /\ now = 0
    /\ last = Step("none", NoImage, "none")
    /\ wrote = << >>
    /\ finish = << >>
    /\ served = 0
    /\ ticks = 0
    /\ answered = 0
    /\ db_failures = 0

Init ==
    /\ \E h \in Histories :
        /\ request_times = h.times
        /\ released = h.times
        /\ monthly_usage = h.used
        /\ daily_usage = h.used
    /\ processing_tasks = {}
    /\ db_status = [i \in Images |-> "none"]
    /\ tasks = EmptyBag
    /\ processing_started = {}
    /\ data = << >>
    /\ ai_result = << >>
    /\ NoSearch
    /\ InitRun

\* The registry is full and so is the minute window: a fresh process answered
\* MAX_REQUESTS_PER_MINUTE - max_concurrent self-tests, then max_concurrent
\* images were uploaded, their tasks were admitted, each recorded its request
\* and sent its POST, all within this second, and none of these POSTs has been
\* answered yet.
InitFull ==
    /\ request_times = Rep(MAX_REQUESTS_PER_MINUTE, 0)
    /\ released = Rep(MAX_REQUESTS_PER_MINUTE, 0)
    /\ monthly_usage = MAX_REQUESTS_PER_MINUTE
    /\ daily_usage = MAX_REQUESTS_PER_MINUTE
    /\ processing_tasks = InFlight
    /\ db_status = [i \in Images |-> IF i \in InFlight THEN "processing" ELSE "none"]
    /\ tasks = SetToBag({Task("background", i, "request", 0, 0) : i \in InFlight})
    /\ processing_started = InFlight
    /\ data = << >>
    /\ ai_result = << >>
    /\ NoSearch
    /\ InitRun

\* asyncio cancels a coroutine at its suspension point (the event loop does it
\* to every outstanding task when the server shuts down): CancelledError is a
\* BaseException, so neither `except Exception` of process_image nor that of
\* test_connection runs, and the coroutine simply ends
Cancel ==
    /\ UNCHANGED <<analysis, search>>
    /\ \E r \in Live :
        /\ r.pc \in {"sleeping", "request"}
        /\ tasks' = Retire(tasks, r)
        /\ last' = Step(r.via, r.img, "cancelled")
        /\ wrote' = << >>
        /\ finish' = << >>
    /\ UNCHANGED <<db_status, db_ai, processing_tasks, quota, now, released,
                   processing_started, served, ticks, answered, db_failures>>

Next ==
    \/ UploadImage
    \/ StartBackground
    \/ RetryProcessing
    \/ HealthCheck
    \/ AnalyzeImageBlob
    \/ WakeUp
    \/ PipelineResponse
    \/ DirectResponse
    \/ Tick

\* the running process, from construction or from a later quota state
Spec == Init /\ [][Next]_vars

\* the running process, from a full registry
SpecFull == InitFull /\ [][Next]_vars

\* the running process when the event loop may cancel outstanding coroutines
NextCancel == Next \/ Cancel

SpecCancel == Init /\ [][NextCancel]_vars

\* The running process as it goes on: every POST is answered or times out
\* (httpx timeout), every sleep ends, and the event loop runs every coroutine
\* that is ready.
NextLive ==
    \/ UploadImage
    \/ StartBackground
    \/ RetryProcessing
    \/ HealthCheck
    \/ AnalyzeImageBlob
    \/ WakeUp
    \/ PipelineAnswer
    \/ DirectAnswer
    \/ Tick
    \/ Elapse

Fairness ==
    /\ WF_vars(StartBackground)
    /\ WF_vars(WakeUp)
    /\ WF_vars(PipelineAnswer)
    /\ WF_vars(DirectAnswer)
    /\ WF_vars(Elapse)

SpecLive == Init /\ [][NextLive]_vars /\ Fairness

\* The detailed health check is open to any number of clients at once, and
\* nothing but the tracker itself holds its calls back.  Burst is the least
\* number of calls that, arriving while the minute window is full and the
\* daily counter is one below its ceiling, take the counters to the monthly
\* ceiling once they are all released.
Burst == MAX_REQUESTS_PER_MONTH - (MAX_REQUESTS_PER_DAY - 1)

\* the state `lastcall` of Histories, after Burst health checks arrived within
\* the same second: each found the counters below the ceilings and the
\* window full, and sleeps until the oldest request is a minute old
InitBurst ==
    /\ request_times = Rep(MAX_REQUESTS_PER_MINUTE, 0)
    /\ released = Rep(MAX_REQUESTS_PER_MINUTE, 0)
    /\ monthly_usage = MAX_REQUESTS_PER_DAY - 1
    /\ daily_usage = MAX_REQUESTS_PER_DAY - 1
    /\ processing_tasks = {}
    /\ db_status = [i \in Images |-> "none"]
    /\ tasks = [r \in {Task("health", NoImage, "sleeping", 0, Minute)} |-> Burst]
    /\ processing_started = {}
    /\ data = << >>
    /\ ai_result = << >>
    /\ NoSearch
    /\ InitRun

NextBurst ==
    \/ UploadImage
    \/ StartBackground
    \/ Elapse
    \/ WakeUp

\* the release of a burst of health checks, and an upload next to it
SpecBurst == InitBurst /\ [][NextBurst]_vars

(* --------------- AzureVisionService._process_azure_response ------------- *)
\* A str is a sequence of one-character strings; a JSON object is a record
\* that has the keys the object has; a confidence is counted in tenths.
LowerCase == <<"a", "b", "c", "d", "e", "f", "g", "h", "i", "j", "k", "l", "m", "n", "o", "p", "q", "r", "s", "t", "u", "v", "w", "x", "y", "z">>
UpperCase == <<"A", "B", "C", "D", "E", "F", "G", "H", "I", "J", "K", "L", "M", "N", "O", "P", "Q", "R", "S", "T", "U", "V", "W", "X", "Y", "Z">>
Whitespace == {" ", "\n", "\t"}
HexDigits == {"0", "1", "2", "3", "4", "5", "6", "7", "8", "9",
              "A", "B", "C", "D", "E", "F", "a", "b", "c", "d", "e", "f"}

\* str.lower(), str.upper()
ToLower(c) ==
    IF \E k \in 1..Len(UpperCase) : UpperCase[k] = c
    THEN LowerCase[CHOOSE k \in 1..Len(UpperCase) : UpperCase[k] = c] ELSE c
ToUpper(c) ==
    IF \E k \in 1..Len(LowerCase) : LowerCase[k] = c
    THEN UpperCase[CHOOSE k \in 1..Len(LowerCase) : LowerCase[k] = c] ELSE c
lower(s) == [k \in 1..Len(s) |-> ToLower(s[k])]
upper(s) == [k \in 1..Len(s) |-> ToUpper(s[k])]

\* str.strip()
RECURSIVE lstrip(_)
lstrip(s) ==
    IF s # << >> /\ Head(s) \in Whitespace THEN lstrip(Tail(s)) ELSE s
RECURSIVE rstrip(_)
rstrip(s) ==
    IF s # << >> /\ s[Len(s)] \in Whitespace
    THEN rstrip(SubSeq(s, 1, Len(s) - 1)) ELSE s
strip(s) == rstrip(lstrip(s))

\* the slice s[:n]
Slice(s, n) == SubSeq(s, 1, IF Len(s) < n THEN Len(s) ELSE n)

\* [tag.lower().strip() for tag in tags]
LowerStripped(tags) == [k \in 1..Len(tags) |-> strip(lower(tags[k]))]

\* "Limit to 8 tags", "Limit to top 10 tags", "Limit length", "Limit to 5
\* colors", and the length and confidence thresholds of the tag filters
TagLimit == 8
TopTags == 10
MinTagLen == 2
MaxTagLen == 50
DescriptionLimit == 200
ColorLimit == 5
ConfidenceThreshold == 5

\* as if _clean_tags did not cut its list
clean_tags_uncut(tags) ==
    LowerStripped(SelectSeq(tags, LAMBDA tag : /\ tag # << >>
                                               /\ Len(tag) > MinTagLen
                                               /\ Len(tag) < MaxTagLen))

\* _clean_tags
clean_tags(tags) ==
    Slice(LowerStripped(SelectSeq(tags, LAMBDA tag : /\ tag # << >>
                                                     /\ Len(tag) > MinTagLen
                                                     /\ Len(tag) < MaxTagLen)),
          TagLimit)

\* _clean_description
clean_description(description) ==
    IF description = << >> THEN << >>
    ELSE LET stripped == strip(description) IN
         Slice([k \in 1..Len(stripped) |->
                   IF stripped[k] = "\n" THEN " " ELSE stripped[k]],
               DescriptionLimit)

color_map ==
    { <<<<"w", "h", "i", "t", "e">>, <<"#", "F", "F", "F", "F", "F", "F">>>>,
      <<<<"b", "l", "a", "c", "k">>, <<"#", "0", "0", "0", "0", "0", "0">>>>,
      <<<<"r", "e", "d">>, <<"#", "F", "F", "0", "0", "0", "0">>>>,
      <<<<"g", "r", "e", "e", "n">>, <<"#", "0", "0", "F", "F", "0", "0">>>>,
      <<<<"b", "l", "u", "e">>, <<"#", "0", "0", "0", "0", "F", "F">>>>,
      <<<<"y", "e", "l", "l", "o", "w">>, <<"#", "F", "F", "F", "F", "0", "0">>>>,
      <<<<"c", "y", "a", "n">>, <<"#", "0", "0", "F", "F", "F", "F">>>>,
      <<<<"m", "a", "g", "e", "n", "t", "a">>, <<"#", "F", "F", "0", "0", "F", "F">>>>,
      <<<<"o", "r", "a", "n", "g", "e">>, <<"#", "F", "F", "A", "5", "0", "0">>>>,
      <<<<"p", "u", "r", "p", "l", "e">>, <<"#", "8", "0", "0", "0", "8", "0">>>>,
      <<<<"p", "i", "n", "k">>, <<"#", "F", "F", "C", "0", "C", "B">>>>,
      <<<<"b", "r", "o", "w", "n">>, <<"#", "A", "5", "2", "A", "2", "A">>>>,
      <<<<"g", "r", "a", "y">>, <<"#", "8", "0", "8", "0", "8", "0">>>>,
      <<<<"g", "r", "e", "y">>, <<"#", "8", "0", "8", "0", "8", "0">>>>,
      <<<<"s", "i", "l", "v", "e", "r">>, <<"#", "C", "0", "C", "0", "C", "0">>>>,
      <<<<"g", "o", "l", "d">>, <<"#", "F", "F", "D", "7", "0", "0">>>>,
      <<<<"n", "a", "v", "y">>, <<"#", "0", "0", "0", "0", "8", "0">>>>,
      <<<<"m", "a", "r", "o", "o", "n">>, <<"#", "8", "0", "0", "0", "0", "0">>>>,
      <<<<"o", "l", "i", "v", "e">>, <<"#", "8", "0", "8", "0", "0", "0">>>>,
      <<<<"l", "i", "m", "e">>, <<"#", "0", "0", "F", "F", "0", "0">>>>,
      <<<<"a", "q", "u", "a">>, <<"#", "0", "0", "F", "F", "F", "F">>>>,
      <<<<"t", "e", "a", "l">>, <<"#", "0", "0", "8", "0", "8", "0">>>>,
      <<<<"f", "u", "c", "h", "s", "i", "a">>, <<"#", "F", "F", "0", "0", "F", "F">>>>,
      <<<<"i", "n", "d", "i", "g", "o">>, <<"#", "4", "B", "0", "0", "8", "2">>>>,
      <<<<"v", "i", "o", "l", "e", "t">>, <<"#", "E", "E", "8", "2", "E", "E">>>>,
      <<<<"c", "o", "r", "a", "l">>, <<"#", "F", "F", "7", "F", "5", "0">>>>,
      <<<<"s", "a", "l", "m", "o", "n">>, <<"#", "F", "A", "8", "0", "7", "2">>>>,
      <<<<"t", "u", "r", "q", "u", "o", "i", "s", "e">>, <<"#", "4", "0", "E", "0", "D", "0">>>>,
      <<<<"b", "e", "i", "g", "e">>, <<"#", "F", "5", "F", "5", "D", "C">>>>,
      <<<<"i", "v", "o", "r", "y">>, <<"#", "F", "F", "F", "F", "F", "0">>>>,
      <<<<"k", "h", "a", "k", "i">>, <<"#", "F", "0", "E", "6", "8", "C">>>>,
      <<<<"l", "a", "v", "e", "n", "d", "e", "r">>, <<"#", "E", "6", "E", "6", "F", "A">>>>,
      <<<<"p", "l", "u", "m">>, <<"#", "D", "D", "A", "0", "D", "D">>>>,
      <<<<"t", "a", "n">>, <<"#", "D", "2", "B", "4", "8", "C">>>>,
      <<<<"w", "h", "e", "a", "t">>, <<"#", "F", "5", "D", "E", "B", "3">>>> }

\* _color_name_to_hex: the code of the name, or << >> for None
color_name_to_hex(color_name) ==
    LET hit == {e \in color_map : e[1] = lower(color_name)}
    IN  IF hit = {} THEN << >> ELSE (CHOOSE e \in hit : TRUE)[2]

AllHex(s) == \A k \in 1..Len(s) : s[k] \in HexDigits

\* one round of the loop of _format_colors: what it appends for `color`
FormatColor(raw) ==
    IF raw = << >> THEN << >>
    ELSE LET color == strip(raw) IN
         IF color # << >> /\ Head(color) = "#" THEN <<upper(color)>>
         ELSE IF Len(color) = 6 /\ AllHex(color) THEN <<<<"#">> \o upper(color)>>
         ELSE IF Len(color) = 3 /\ AllHex(color)
              THEN <<<<"#">> \o upper(<<color[1], color[1], color[2], color[2],
                                         color[3], color[3]>>)>>
         ELSE IF color_name_to_hex(color) # << >>
              THEN <<color_name_to_hex(color)>>
         ELSE << >>

RECURSIVE Flatten(_)
Flatten(ss) == IF ss = << >> THEN << >> ELSE Head(ss) \o Flatten(Tail(ss))

\* _format_colors
format_colors(colors) ==
    Slice(Flatten([k \in 1..Len(colors) |-> FormatColor(colors[k])]), ColorLimit)

\* confidence_scores: the confidence of the last entry of each tag name
ConfidenceScores(d) ==
    IF "tags" \notin DOMAIN d THEN {}
    ELSE { <<d.tags[k].name, d.tags[k].confidence>> : k \in
             {k \in 1..Len(d.tags) :
                 \A j \in (k + 1)..Len(d.tags) : d.tags[j].name # d.tags[k].name} }

\* _process_azure_response
process_azure_response(d) ==
    LET tags ==
          IF "tags" \in DOMAIN d
          THEN LET kept == SelectSeq(d.tags,
                                     LAMBDA tag : tag.confidence > ConfidenceThreshold)
               IN  Slice([k \in 1..Len(kept) |-> kept[k].name], TopTags)
          ELSE << >>
        description ==
          IF /\ "description" \in DOMAIN d
             /\ "captions" \in DOMAIN d.description
             /\ d.description.captions # << >>
          THEN d.description.captions[1].text
          ELSE << >>
        dominant_colors ==
          IF "color" \in DOMAIN d /\ "dominantColors" \in DOMAIN d.color
          THEN Slice(d.color.dominantColors, ColorLimit)
          ELSE << >>
    IN  [tags |-> clean_tags(tags),
         description |-> clean_description(description),
         dominant_colors |-> format_colors(dominant_colors),
         confidence_scores |-> ConfidenceScores(d)]

(* ------------------------- upstream payloads --------------------------- *)
\* every sequence over S of length at most n
SeqsUpTo(S, n) == UNION {[1..k -> S] : k \in 0..n}

\* tag names: of every length around the two length filters, in mixed case,
\* and with white space around them
TagNames ==
    {Rep(n, "a") : n \in 0..3 \cup (MaxNameLen - 2)..MaxNameLen}
      \cup { <<"C", "a", "t">>, <<"c", "a", "t">>, <<" ", "a", " ">>,
             <<" ", "c", "a", "t">>, <<"D", "O", "G", "\n">> }

\* the confidence is absent (tag.get gives 0), on the threshold, or above it
TagEntries == [name : TagNames, confidence : {0, 5, 6}]

\* n tags with n different names
NumberedTags(n) ==
    [k \in 1..n |-> [name |-> <<"t", "a", "g", LowerCase[k]>>, confidence |-> 9]]

TagLists ==
    SeqsUpTo(TagEntries, MaxListLen)
      \cup {NumberedTags(n) : n \in 0..MaxTagCount}
      \cup {Rep(n, [name |-> <<"a">>, confidence |-> 9]) \o NumberedTags(2) :
               n \in 0..(MaxTagCount - 2)}

Descriptions ==
    {Rep(n, "a") : n \in 0..1 \cup (MaxDescLen - 2)..MaxDescLen}
      \cup { <<" ">> \o Rep(MaxDescLen, "a"), <<"a", "\n", "b">>,
             <<" ", "\n">>, <<"\n", "a", " ">> }

CaptionLists == SeqsUpTo([text : Descriptions], MaxListLen)

\* dominant colors: hex codes with and without #, of 3 and 6 digits and of
\* other lengths, color names in mixed case, and strings that are neither
ColorInputs ==
    { <<"#", "f", "f", "0", "0", "0", "0">>, <<"#", "F", "F", "0", "0", "0", "0">>,
      <<"#", "f", "f", "f">>, <<"#">>, <<"#", "g", "g">>,
      <<"f", "f", "0", "0", "0", "0">>, <<"F", "F", "F">>, <<"a", "b", "c">>,
      <<"1", "2", "3", "4", "5", "g">>, <<"f", "f", "f", "f">>,
      <<"r", "e", "d">>, <<"R", "e", "d">>, <<"W", "h", "i", "t", "e">>,
      <<"G", "r", "e", "y">>, <<" ", "r", "e", "d", " ">>, <<"x", "y", "z">>,
      <<" ", "#", "a", "b", "c">>, << >> }

ColorLists ==
    SeqsUpTo(ColorInputs, MaxListLen)
      \cup {Rep(n, c) : n \in 0..MaxColorCount,
                        c \in {<<"r", "e", "d">>, <<"x", "y", "z">>}}
      \cup {Rep(n, <<"x", "y", "z">>) \o <<<<"r", "e", "d">>>> :
               n \in 0..(MaxColorCount - 1)}

\* the JSON objects the vision API may answer with: any of the three parts
\* may be missing
Payloads ==
    {[requestId |-> "r"], [description |-> [tags |-> << >>]],
     [color |-> [accentColor |-> "c"]]}
      \cup {[tags |-> tl] : tl \in TagLists}
      \cup {[description |-> [captions |-> cl]] : cl \in CaptionLists}
      \cup {[color |-> [dominantColors |-> cl]] : cl \in ColorLists}
      \cup {[tags |-> NumberedTags(n),
             description |-> [captions |-> <<[text |-> d]>>],
             color |-> [dominantColors |-> Rep(n, c)]] :
               n \in {0, MaxColorCount}, d \in Descriptions, c \in ColorInputs}

\* analyze_image after a 2xx answer: response.json() is turned into the
\* AIProcessingResult
ProcessAzureResponse ==
    /\ ai_result = << >>
    /\ ai_result' = <<process_azure_response(data)>>
    /\ UNCHANGED search
    /\ UNCHANGED <<db_status, db_ai, processing_tasks, quota, now, tasks,
                   released, processing_started, last, wrote, finish, served,
                   ticks,
                   answered, db_failures, data>>

\* a fresh process that has received an answer of the vision API
InitResponse ==
    /\ request_times = << >>
    /\ released = << >>
    /\ monthly_usage = 0
    /\ daily_usage = 0
    /\ processing_tasks = {}
    /\ db_status = [i \in Images |-> "none"]
    /\ tasks = EmptyBag
    /\ processing_started = {}
    /\ data \in Payloads
    /\ ai_result = << >>
    /\ NoSearch
    /\ InitRun

NextResponse == ProcessAzureResponse

\* the processing of one answer, for every answer
SpecResponse == InitResponse /\ [][NextResponse]_vars

(* --------------------------- find_similar_images ------------------------ *)
\* A column of a row is Null or <<value>>.  A similarity is the fraction
\* n/d of two set sizes, kept exact; a reported score is a whole number of
\* thousandths and a threshold a whole number of ten-thousandths.  The code
\* computes in binary64: the two tables below say where, for sets of at most
\* 5 tags and 9 words, its result differs from the exact one.
Null == << >>
current_user == "me"
PerMille == 1000
PerMyriad == 10 * PerMille
\* the weights 0.7 and 0.3, in tenths
TagWeight == 7
DescWeight == 3

\* the pairs (tag similarity, description similarity), in lowest terms, whose
\* exact combined score is a whole number of ten-thousandths and whose
\* binary64 sum (tag_similarity * 0.7) + (desc_similarity * 0.3) is below the
\* binary64 value of that number
FallsShort ==
    {
      <<0, 1, 1, 3>>, <<0, 1, 1, 6>>, <<0, 1, 2, 3>>, <<0, 1, 3, 4>>, <<0, 1, 3, 8>>,
      <<1, 1, 1, 3>>, <<1, 1, 1, 4>>, <<1, 1, 1, 8>>, <<1, 1, 2, 3>>, <<1, 1, 3, 4>>,
      <<1, 1, 3, 5>>, <<1, 1, 7, 8>>, <<1, 2, 1, 1>>, <<1, 2, 1, 3>>, <<1, 2, 1, 6>>,
      <<1, 2, 1, 8>>, <<1, 2, 2, 3>>, <<1, 2, 3, 8>>, <<1, 3, 5, 9>>, <<1, 4, 1, 2>>,
      <<1, 4, 1, 3>>, <<1, 4, 1, 6>>, <<1, 4, 3, 4>>, <<1, 5, 0, 1>>, <<1, 5, 1, 1>>,
      <<1, 5, 1, 4>>, <<1, 5, 1, 5>>, <<1, 5, 1, 6>>, <<1, 5, 2, 3>>, <<1, 5, 3, 5>>,
      <<1, 5, 3, 8>>, <<1, 5, 7, 8>>, <<2, 3, 1, 9>>, <<2, 5, 0, 1>>, <<2, 5, 1, 2>>,
      <<2, 5, 1, 3>>, <<2, 5, 1, 5>>, <<2, 5, 1, 6>>, <<2, 5, 1, 8>>, <<2, 5, 2, 5>>,
      <<2, 5, 3, 4>>, <<2, 5, 3, 5>>, <<2, 5, 3, 8>>, <<2, 5, 5, 8>>, <<3, 4, 0, 1>>,
      <<3, 4, 1, 2>>, <<3, 4, 1, 3>>, <<3, 4, 1, 4>>, <<3, 4, 1, 8>>, <<3, 4, 2, 3>>,
      <<3, 4, 2, 5>>, <<3, 4, 3, 4>>, <<3, 4, 3, 5>>, <<3, 4, 4, 5>>, <<3, 4, 5, 6>>,
      <<3, 4, 5, 8>>, <<3, 4, 7, 8>>, <<3, 5, 1, 8>>, <<3, 5, 4, 5>>, <<3, 5, 5, 6>>,
      <<3, 5, 5, 8>>, <<4, 5, 0, 1>>, <<4, 5, 1, 1>>, <<4, 5, 1, 3>>, <<4, 5, 1, 4>>,
      <<4, 5, 1, 5>>, <<4, 5, 1, 8>>, <<4, 5, 2, 3>>, <<4, 5, 2, 5>>, <<4, 5, 3, 4>>,
      <<4, 5, 3, 8>>, <<4, 5, 4, 5>>, <<4, 5, 5, 6>>, <<4, 5, 5, 8>> }

\* the pairs whose exact combined score lies half way between two
\* thousandths and for which round(combined_similarity, 3) gives the upper one
TieRoundsUp ==
    {
      <<0, 1, 5, 8>>, <<0, 1, 7, 8>>, <<1, 2, 7, 8>>, <<1, 4, 7, 8>>, <<1, 5, 5, 8>>,
      <<4, 5, 7, 8>> }

Library ==
    { [user_id |-> "me", ai_tags |-> <<<<"a", "b", "c">>>>,
       ai_description |-> <<<<"a", " ", "c", "a", "t", " ", "s", "a", "t">>>>],
      [user_id |-> "me", ai_tags |-> <<<<"b", "c", "d">>>>,
       ai_description |-> <<<<"a", " ", "c", "a", "t", " ", "r", "a", "n">>>>],
      [user_id |-> "me", ai_tags |-> <<<<"c", "b", "a", "a">>>>,
       ai_description |-> <<<<"A", " ", " ", "C", "a", "t", "\n", "S", "A", "T">>>>],
      [user_id |-> "me", ai_tags |-> <<<<"a", "b", "c", "d">>>>,
       ai_description |-> <<<<"a", " ", "d", "o", "g">>>>],
      [user_id |-> "me", ai_tags |-> <<<< >>>>,
       ai_description |-> <<<<"a", " ", "c", "a", "t", " ", "s", "a", "t">>>>],
      [user_id |-> "me", ai_tags |-> Null,
       ai_description |-> <<<<"a", " ", "c", "a", "t">>>>],
      [user_id |-> "me", ai_tags |-> <<<<"a", "b", "c">>>>,
       ai_description |-> <<<< >>>>],
      [user_id |-> "me", ai_tags |-> <<<<"a", "b", "c">>>>,
       ai_description |-> Null],
      [user_id |-> "me", ai_tags |-> <<<<"a", "b">>>>,
       ai_description |-> <<<<" ">>>>],
      [user_id |-> "me", ai_tags |-> <<<<"a", "b", "c">>>>,
       ai_description |-> <<<<"a", " ", "c", "a", "t", " ", "s", "a", "t", " ", "o", "n", " ", "t", "h", "e", " ", "m", "a", "t">>>>],
      [user_id |-> "me", ai_tags |-> <<<<"a", "b", "d">>>>,
       ai_description |-> <<<<"a", " ", "c", "a", "t", " ", "s", "a", "t", " ", "o", "n", " ", "t", "h", "e", " ", "m", "a", "t", " ", "t", "o", "d", "a", "y">>>>],
      [user_id |-> "me", ai_tags |-> <<<<"a", "b", "c", "d", "e">>>>,
       ai_description |-> <<<<"a", " ", "c", "a", "t", " ", "s", "a", "t", " ", "o", "n", " ", "t", "h", "e", " ", "r", "u", "g", " ", "n", "o", "w">>>>],
      [user_id |-> "other", ai_tags |-> <<<<"a", "b", "c">>>>,
       ai_description |-> <<<<"a", " ", "c", "a", "t", " ", "s", "a", "t">>>>] }

\* the rows of one user's gallery, a stranger's row among them: analysed
\* images, images whose analysis found no tag or no caption, images never
\* analysed
Tables == UNION {[1..k -> Library] : k \in 1..MaxRows}

Thresholds == {0, 5000, 6000, 6071, PerMyriad}

\* image_id may name no row; limit and similarity_threshold are within the
\* ranges the route declares
Queries(rows) ==
    [image_id : 1..(Len(rows) + 1), limit : 1..MaxLimit,
     similarity_threshold : Thresholds]

\* str.split(): the words between runs of white space
RECURSIVE split(_)
split(s) ==
    LET t == lstrip(s)
        n == IF \E k \in 1..Len(t) : t[k] \in Whitespace
             THEN CHOOSE k \in 1..Len(t) :
                      /\ t[k] \in Whitespace
                      /\ \A j \in 1..(k - 1) : t[j] \notin Whitespace
             ELSE Len(t) + 1
    IN  IF t = << >> THEN << >>
        ELSE <<SubSeq(t, 1, n - 1)>> \o split(SubSeq(t, n, Len(t)))

\* `not row.get(column)`: the column is null or holds an empty list or str
Falsy(column) == column = Null \/ column[1] = << >>

\* a / b; ZeroDivisionError when b = 0
Divide(a, b) == [n |-> a, d |-> b]
Raises(x) == x.d = 0
Zero == [n |-> 0, d |-> 1]

RECURSIVE GCD(_, _)
GCD(a, b) == IF b = 0 THEN a ELSE GCD(b, a % b)

\* the key of a pair of similarities in FallsShort and TieRoundsUp
Lowest(t, d) ==
    <<t.n \div GCD(t.n, t.d), t.d \div GCD(t.n, t.d),
      d.n \div GCD(d.n, d.d), d.d \div GCD(d.n, d.d)>>

\* len(A.intersection(B)) / len(A.union(B)) if A or B else 0
SimilarityUnguarded(A, B) ==
    Divide(Cardinality(A \cap B), Cardinality(A \cup B))
Similarity(A, B) ==
    IF A # {} \/ B # {}
    THEN Divide(Cardinality(A \cap B), Cardinality(A \cup B))
    ELSE Zero

\* set(description.lower().split())
WordsAsWritten(description) == Range(split(description))
Words(description) == Range(split(lower(description)))

tag_similarity(source, image) ==
    Similarity(Range(source.ai_tags[1]), Range(image.ai_tags[1]))
desc_similarity(source, image) ==
    Similarity(Words(source.ai_description[1]), Words(image.ai_description[1]))

\* (tag_similarity * 0.7) + (desc_similarity * 0.3), exactly
CombinedEven(t, d) == [n |-> t.n * d.d + d.n * t.d, d |-> 2 * t.d * d.d]
Combined(t, d) ==
    [n |-> TagWeight * t.n * d.d + DescWeight * d.n * t.d,
     d |-> (TagWeight + DescWeight) * t.d * d.d]

\* combined_similarity >= similarity_threshold, as binary64 decides it
AtLeast(t, d, threshold) ==
    LET c == Combined(t, d)
    IN  IF c.n * PerMyriad = threshold * c.d
        THEN Lowest(t, d) \notin FallsShort
        ELSE c.n * PerMyriad > threshold * c.d

\* round(x, 3) in thousandths; `up` says where a value half way between two
\* thousandths goes
Round3(x, up) ==
    LET q == (2 * PerMille * x.n) \div x.d
        half == (2 * PerMille * x.n) % x.d = 0 /\ q % 2 = 1
    IN  IF half /\ ~up THEN (q - 1) \div 2 ELSE (q + 1) \div 2

\* the entry find_similar_images appends for a candidate
Entry(source, image) ==
    LET t == tag_similarity(source, image)
        d == desc_similarity(source, image)
    IN  [id |-> image.id,
         similarity_score |->
             Round3(Combined(t, d), Lowest(t, d) \in TieRoundsUp),
         tag_similarity |-> Round3(t, TRUE),
         description_similarity |-> Round3(d, TRUE)]

\* list.sort(key=similarity_score, reverse=True): stable, descending
RECURSIVE InsertByScore(_, _)
InsertByScore(x, s) ==
    IF s # << >> /\ Head(s).similarity_score > x.similarity_score
    THEN <<Head(s)>> \o InsertByScore(x, Tail(s))
    ELSE <<x>> \o s
RECURSIVE SortByScore(_)
SortByScore(s) ==
    IF s = << >> THEN << >> ELSE InsertByScore(Head(s), SortByScore(Tail(s)))

\* the rows of db_images with their ids
WithIds(rows) ==
    [k \in 1..Len(rows) |->
        [id |-> k, user_id |-> rows[k].user_id, ai_tags |-> rows[k].ai_tags,
         ai_description |-> rows[k].ai_description]]

\* the second select: the user's other rows whose ai_tags and ai_description
\* are not null, in the order of the table
OtherImages(rows, image_id) ==
    LET Wanted(row) ==
            /\ row.user_id = current_user
            /\ row.id # image_id
            /\ row.ai_tags # Null
            /\ row.ai_description # Null
    IN  SelectSeq(WithIds(rows), Wanted)

HttpError(code, why) ==
    [status_code |-> code, detail |-> why, similar_images |-> << >>]
Found(entries) ==
    [status_code |-> 200, detail |-> "", similar_images |-> entries]

\* the candidates the loop keeps, in the order of all_images
Kept(source, all_images, threshold) ==
    LET Passes(image) ==
            AtLeast(tag_similarity(source, image),
                    desc_similarity(source, image), threshold)
        kept == SelectSeq(all_images, Passes)
    IN  [k \in 1..Len(kept) |-> Entry(source, kept[k])]

find_similar_images(rows, q) ==
    IF q.image_id \notin 1..Len(rows)
    THEN HttpError(404, "Source image not found")
    ELSE
    LET source_image == WithIds(rows)[q.image_id]
        all_images == OtherImages(rows, q.image_id)
    IN  IF source_image.user_id # current_user
        THEN HttpError(403, "You don't have permission to access this image")
        ELSE IF Falsy(source_image.ai_tags) \/ Falsy(source_image.ai_description)
        THEN HttpError(400, "Source image must have AI analysis completed")
        ELSE IF \E k \in 1..Len(all_images) :
                    \/ Raises(tag_similarity(source_image, all_images[k]))
                    \/ Raises(desc_similarity(source_image, all_images[k]))
        THEN HttpError(500, "Similar image search failed")
        ELSE Found(Slice(SortByScore(Kept(source_image, all_images,
                                          q.similarity_threshold)),
                         q.limit))

\* GET /images/{image_id}/similar
FindSimilarImages ==
    /\ response = << >>
    /\ response' = <<find_similar_images(db_images, query)>>
    /\ UNCHANGED <<db_status, db_ai, processing_tasks, quota, now, tasks,
                   released, processing_started, last, wrote, finish, served,
                   ticks,
                   answered, db_failures, analysis, db_images, query>>

\* a fresh process that is asked for the images similar to one
InitSimilar ==
    /\ request_times = << >>
    /\ released = << >>
    /\ monthly_usage = 0
    /\ daily_usage = 0
    /\ processing_tasks = {}
    /\ db_status = [i \in Images |-> "none"]
    /\ tasks = EmptyBag
    /\ processing_started = {}
    /\ data = << >>
    /\ ai_result = << >>
    /\ db_images \in Tables
    /\ query \in Queries(db_images)
    /\ response = << >>
    /\ InitRun

NextSimilar == FindSimilarImages

\* one similarity search, for every table and every query
SpecSimilar == InitSimilar /\ [][NextSimilar]_vars

(* ------------------------- vocabulary of the claims --------------------- *)
RECURSIVE Copies(_, _)
Copies(bag, S) ==
    IF S = {} THEN 0
    ELSE LET r == CHOOSE x \in S : TRUE
         IN  CopiesIn(r, bag) + Copies(bag, S \ {r})

\* the coroutines of process_image that were admitted for image i and have
\* not ended
Admitted(i) ==
    {r \in Live : r.img = i /\ r.via \in PipelineVias /\ r.pc # "scheduled"}

InFlightCount(i) == Copies(tasks, Admitted(i))

\* the coroutines that are in _check_rate_limit or past it
InAdapter == [r \in {x \in Live : x.pc # "scheduled"} |-> tasks[r]]

\* this step runs process_image for image last'.img from its first line: the
\* event loop starts a task made by upload_image, or a retry request is served
Submitted ==
    \/ \E r \in Live : r.pc = "scheduled" /\ CopiesIn(r, tasks') < CopiesIn(r, tasks)
    \/ served' = served + 1 /\ last'.via = "retry"

\* this step enters _check_rate_limit
Entered ==
    \/ Submitted /\ last'.ret \notin {"duplicate", "capacity"}
    \/ served' = served + 1 /\ last'.via \in DirectVias

InWindow(times, t) == SelectSeq(times, LAMBDA x : t - x < Minute)

(* --------------------------------- C1 ---------------------------------- *)
\* C1: in every reachable state at most one admitted process_image coroutine
\* is outstanding for any image identifier.
C1_OneTaskPerImage == \A i \in Images : InFlightCount(i) <= 1

\* an image is in flight while a second process_image call for it is scheduled
C1_Witness == \E r \in Live : r.pc = "scheduled" /\ InFlightCount(r.img) = 1

(* --------------------------------- C2 ---------------------------------- *)
\* C2: in every reachable state the registry holds at most max_concurrent
\* entries.
C2_RegistryBounded == Cardinality(processing_tasks) <= max_concurrent

\* the registry is full while one more process_image call is scheduled
C2_Witness ==
    /\ Cardinality(processing_tasks) = max_concurrent
    /\ \E r \in Live : r.pc = "scheduled" /\ r.img \notin processing_tasks

(* --------------------------------- C3 ---------------------------------- *)
\* C3: a process_image call for an image that has a registry entry returns
\* the duplicate rejection and changes nothing: the registry, the AI fields,
\* the tracker's timestamps and counters, the requests sent and the coroutines
\* in the adapter are as before, and the status column is as it was when
\* process_image was entered (for a retry: after the reset that
\* retry_failed_processing writes before it calls process_image).
C3_DuplicateNoEffect ==
    [][ (Submitted /\ last'.img \in processing_tasks) =>
            /\ last'.ret = "duplicate"
            /\ processing_tasks' = processing_tasks
            /\ db_ai' = db_ai
            /\ quota' = quota
            /\ released' = released
            /\ InAdapter' = InAdapter
            /\ IF last'.via = "retry"
               THEN db_status' \in {db_status,
                                    [db_status EXCEPT ![last'.img] = "pending"]}
               ELSE db_status' = db_status ]_vars

\* a call was just rejected as a duplicate of a task that is still registered
C3_Witness == last.ret = "duplicate" /\ last.img \in processing_tasks

(* --------------------------------- C4 ---------------------------------- *)
\* C4: a process_image call made while the registry holds max_concurrent
\* entries is rejected, whichever image it is for, and leaves the registry
\* as it is.
C4_FullRejects ==
    [][ (Submitted /\ Cardinality(processing_tasks) >= max_concurrent) =>
            /\ last'.ret \in {"duplicate", "capacity"}
            /\ processing_tasks' = processing_tasks ]_vars

\* a call for an image that is not in flight was just rejected by a full
\* registry
C4_Witness ==
    /\ last.ret = "capacity"
    /\ last.img \notin processing_tasks
    /\ Cardinality(processing_tasks) = max_concurrent

(* --------------------------------- C5 ---------------------------------- *)
\* C5: a fire-and-forget submission is told accepted=true only if it is
\* admitted: no image whose upload response said processing_started=True has
\* its background call rejected as a duplicate or for capacity.
C5_RejectionReported ==
    (last.via = "background" /\ last.ret \in {"duplicate", "capacity"})
        => last.img \notin processing_started

(* --------------------------------- C6 ---------------------------------- *)
\* C6: a registry entry exists exactly as long as its admitted task runs: no
\* admitted task has ended while its entry stays, and no entry is removed
\* while its task is still running.
C6_EntryReleasedOnExit ==
    \A i \in Images : (i \in processing_tasks) <=> (InFlightCount(i) >= 1)

(* --------------------------------- C7 ---------------------------------- *)
\* C7: the counters never exceed the daily and the monthly ceiling.
C7_Ceilings ==
    /\ daily_usage <= MAX_REQUESTS_PER_DAY
    /\ monthly_usage <= MAX_REQUESTS_PER_MONTH

(* --------------------------------- C8 ---------------------------------- *)
\* C8: at every instant, at most MAX_REQUESTS_PER_MINUTE requests were sent
\* to the vision API during the trailing 60 seconds.
C8_MinuteWindow ==
    Len(InWindow(released, now)) <= MAX_REQUESTS_PER_MINUTE

C10_AdmissionBeforeRequest ==
    [][ /\ (released' # released =>
                /\ released' = Append(released, now)
                /\ daily_usage' = daily_usage + 1
                /\ monthly_usage' = monthly_usage + 1
                /\ Len(request_times') > 0
                /\ request_times'[Len(request_times')] <= now)
        /\ ( ( /\ Entered
               /\ \/ monthly_usage >= MAX_REQUESTS_PER_MONTH
                  \/ daily_usage >= MAX_REQUESTS_PER_DAY ) =>
                /\ released' = released
                /\ daily_usage' = daily_usage
                /\ monthly_usage' = monthly_usage
                /\ InAdapter' = InAdapter
                /\ last'.ret = IF last'.via = "health" THEN "false"
                               ELSE IF monthly_usage >= MAX_REQUESTS_PER_MONTH
                                    THEN "monthly" ELSE "daily" ) ]_vars

\* a pipeline call was just refused by the daily ceiling
C10_Witness ==
    /\ last.ret = "daily"
    /\ last.via \in PipelineVias
    /\ daily_usage >= MAX_REQUESTS_PER_DAY

(* --------------------------------- C11 --------------------------------- *)
\* C11: during one analysis attempt the status column moves pending ->
\* processing -> completed or failed: while an image is registered its status
\* never moves from processing back to pending, and the write that ends an
\* attempt (the POST was answered) never takes the status from pending
\* straight to completed or failed (as long as no write has been lost).
C11_StatusOrder ==
    [][ \A i \in Images :
          /\ (i \in processing_tasks /\ db_status[i] = "processing")
                => db_status'[i] # "pending"
          /\ (answered' # answered /\ db_failures' = 0
                                     /\ db_status[i] = "pending")
                => db_status'[i] \notin {"completed", "failed"} ]_vars

(* --------------------------------- C12 --------------------------------- *)
\* this step serves a retry for image i, whose status is failed and which is
\* not registered, and the retry gets as far as the vision adapter
RetryOfFailed(i) ==
    /\ served' = served + 1
    /\ last'.via = "retry"
    /\ last'.img = i
    /\ db_status[i] = "failed"
    /\ i \notin processing_tasks
    /\ last'.ret \notin {"duplicate", "capacity"}

\* C12 as stated: a retry of a failed image that is not in flight moves the
\* status to pending and then to processing before the adapter is entered.
C12_RetryOrder ==
    [][ \A i \in Images : RetryOfFailed(i) =>
            /\ Len(wrote') >= 2
            /\ SubSeq(wrote', 1, 2) = <<"pending", "processing">> ]_vars

\* C12 amended: the retry issues the write of pending and then the write of
\* processing before the adapter is entered, so the values stored before the
\* adapter is entered are in that order; when neither write fails the status
\* moves failed -> pending -> processing, and it is processing while the
\* request of the retry is outstanding.
C12_RetryOrderLanded ==
    [][ \A i \in Images : RetryOfFailed(i) =>
            /\ SelectSeq(wrote', LAMBDA v : v # "failed")
                  \in {<< >>, <<"pending">>, <<"processing">>,
                       <<"pending", "processing">>}
            /\ db_failures' = db_failures =>
                  /\ Len(wrote') >= 2
                  /\ SubSeq(wrote', 1, 2) = <<"pending", "processing">>
                  /\ last'.ret = "none" =>
                        /\ db_status'[i] = "processing"
                        /\ i \in processing_tasks' ]_vars

\* a retry of an image whose first attempt failed has just sent its request
C12_Witness ==
    /\ last.via = "retry"
    /\ last.ret = "none"
    /\ wrote = <<"pending", "processing">>
    /\ answered = 1
    /\ db_failures = 0
    /\ db_ai[last.img] = NoResult
    /\ db_status[last.img] = "processing"
    /\ \E r \in Live : r.img = last.img /\ r.pc = "request"

(* --------------------------------- C13 --------------------------------- *)
\* C13: a retry for an image that is registered is rejected like a duplicate
\* submission: it returns the rejection, no second analysis starts, and the
\* registry and the status column are as before.
C13_RetryInFlight ==
    [][ ( /\ served' = served + 1
          /\ last'.via = "retry"
          /\ last'.img \in processing_tasks ) =>
            /\ last'.ret = "duplicate"
            /\ InAdapter' = InAdapter
            /\ released' = released
            /\ processing_tasks' = processing_tasks
            /\ db_status' = db_status ]_vars

(* --------------------------------- C14 --------------------------------- *)
\* what process_image returns when the adapter call of an admitted task fails
AdapterFailures == {"api_error", "analysis_failed", "daily", "monthly"}

\* this step ends an attempt for image i with a failure of the adapter call
AttemptFails(i) ==
    /\ last'.via \in PipelineVias
    /\ last'.img = i
    /\ last'.ret \in AdapterFailures

\* C14 as stated: when the adapter call of an admitted task fails, the
\* attempt ends with the status failed and the registry slot released.
C14_FailureEndsFailed ==
    [][ \A i \in Images : AttemptFails(i) =>
            /\ db_status'[i] = "failed"
            /\ i \notin processing_tasks' ]_vars

\* C14 amended: when the adapter call of an admitted task fails, the attempt
\* ends with the write of failed as the last write issued (the status is
\* failed unless that write fails), the registry slot is released, nothing
\* is sent again and no coroutine of the image is left in the adapter; and a
\* coroutine enters the adapter for an image only when a submission (an
\* upload's task or a retry) is run.
C14_FailureTerminal ==
    [][ /\ \A i \in Images : AttemptFails(i) =>
            /\ i \notin processing_tasks'
            /\ Admitted(i)' = {}
            /\ Len(released') <= Len(released) + 1
            /\ answered' # answered => released' = released
            /\ IF db_failures' = db_failures
               THEN /\ db_status'[i] = "failed"
                    /\ wrote'[Len(wrote')] = "failed"
               ELSE \A k \in 1..Len(wrote') : wrote'[k] # "completed"
        /\ \A i \in Images :
              InFlightCount(i)' > InFlightCount(i) => Submitted ]_vars

\* the request of an admitted task has just failed: the image is marked
\* failed and its slot is free
C14_Witness ==
    /\ last.via \in PipelineVias
    /\ last.ret \in {"api_error", "analysis_failed"}
    /\ wrote = <<"failed">>
    /\ db_status[last.img] = "failed"
    /\ last.img \notin processing_tasks

(* --------------------------------- C15 --------------------------------- *)
\* this step ends an attempt for image i with a successful adapter call
AttemptSucceeds(i) ==
    /\ last'.via \in PipelineVias
    /\ last'.img = i
    /\ last'.ret = "ok"

\* C15 as stated: when the adapter call of an admitted task succeeds, the
\* status becomes completed together with the tags, description and colors
\* of the result.
C15_SuccessCompletes ==
    [][ \A i \in Images : AttemptSucceeds(i) =>
            /\ db_status'[i] = "completed"
            /\ db_ai'[i] \in StoredResults ]_vars

\* C15 amended: when the adapter call of an admitted task succeeds, one
\* update statement sets the status to completed and stores the tags,
\* description and colors of the result, without the confidence map: if it
\* succeeds both change together, if it fails neither changes; and no step
\* leaves a row completed without stored AI fields.
C15_SuccessOneWrite ==
    [][ \A i \in Images :
          /\ AttemptSucceeds(i) =>
                IF db_failures' = db_failures
                THEN /\ db_status'[i] = "completed"
                     /\ db_ai'[i] \in StoredResults
                     /\ wrote' = <<"completed">>
                ELSE /\ db_status'[i] = db_status[i]
                     /\ db_ai'[i] = db_ai[i]
                     /\ wrote' = << >>
          /\ db_status'[i] = "completed" => db_ai'[i] \in StoredResults
          /\ db_ai'[i] # db_ai[i] => AttemptSucceeds(i) ]_vars

\* the request of an admitted task has just succeeded and its result is stored
C15_Witness ==
    /\ last.via \in PipelineVias
    /\ last.ret = "ok"
    /\ wrote = <<"completed">>
    /\ db_status[last.img] = "completed"
    /\ db_ai[last.img] \in StoredResults

C17_WriteFailureSwallowed ==
    [][ \A i \in Images \cup {NoImage} :
          (db_failures' > db_failures /\ last'.img = i) =>
          /\ last'.via \in PipelineVias
          /\ answered' # answered =>
                /\ last'.ret \in NetOutcomes
                /\ i \notin processing_tasks'
                /\ Admitted(i)' = {}
                /\ db_status' = db_status
                /\ db_ai' = db_ai
                /\ wrote' = << >>
          /\ answered' = answered =>
                /\ last'.ret \in {"duplicate", "capacity", "daily", "monthly", "none"}
                /\ last'.ret = "none" =>
                      /\ i \in processing_tasks'
                      /\ InFlightCount(i)' = 1
                      /\ InAdapter' # InAdapter
                /\ last'.ret \in {"daily", "monthly"} => i \notin processing_tasks'
                /\ last'.ret \in {"duplicate", "capacity"} =>
                      processing_tasks' = processing_tasks
                /\ Len(wrote') + (db_failures' - db_failures)
                      <= (IF last'.via = "retry" THEN 3 ELSE 2)
                /\ \A k \in 1..Len(wrote') :
                      \A j \in 1..Len(wrote') : wrote'[k] = wrote'[j] => k = j ]_vars

\* the `processing` write of an upload's task failed, and the task has sent
\* its request all the same
C17_Witness ==
    /\ last.via = "background"
    /\ last.ret = "none"
    /\ wrote = << >>
    /\ db_failures = 1
    /\ db_status[last.img] = "pending"
    /\ last.img \in processing_tasks
    /\ \E r \in Live : r.img = last.img /\ r.pc = "request"

(* --------------------------------- C18 --------------------------------- *)
\* C18: the result of _process_azure_response has at most 8 tags, at most 5
\* colors and a description of at most 200 characters.
C18_ResultSizes ==
    ai_result # << >> =>
        /\ Len(ai_result[1].tags) <= 8
        /\ Len(ai_result[1].dominant_colors) <= 5
        /\ Len(ai_result[1].description) <= 200

\* a payload with more than 8 usable tags has been processed
C18_Witness ==
    /\ ai_result # << >>
    /\ "tags" \in DOMAIN data
    /\ Len(data.tags) > 8
    /\ Len(ai_result[1].tags) = 8

(* --------------------------------- C19 --------------------------------- *)
\* C19: every tag of the result is lowercase and 3 to 49 characters long,
\* and no tag appears twice.
C19_TagsClean ==
    ai_result # << >> =>
        LET tags == ai_result[1].tags IN
        /\ \A k \in 1..Len(tags) :
              /\ tags[k] = lower(tags[k])
              /\ tags[k] = strip(tags[k])
              /\ Len(tags[k]) >= 3
              /\ Len(tags[k]) <= 49
        /\ \A j, k \in 1..Len(tags) : tags[j] = tags[k] => j = k

(* --------------------------------- C20 --------------------------------- *)
\* C20: every color of the result is # followed by six uppercase
\* hexadecimal digits.
C20_ColorsHex ==
    ai_result # << >> =>
        \A k \in 1..Len(ai_result[1].dominant_colors) :
            LET color == ai_result[1].dominant_colors[k] IN
            /\ Len(color) = 7
            /\ color[1] = "#"
            /\ \A j \in 2..7 : color[j] \in HexDigits /\ color[j] = ToUpper(color[j])


(* ------------------ vocabulary of the similarity claims ----------------- *)
\* the search has been answered; the answer
Answered == response # << >>
Answer == response[1]
\* the query names a row of the user's
SourceOwned ==
    /\ query.image_id \in 1..Len(db_images)
    /\ db_images[query.image_id].user_id = current_user
Source == db_images[query.image_id]
\* a column that is missing or empty
Lacking(column) == column = Null \/ column = << << >> >>
\* the rows the search compares the source with, as positions of db_images
Candidates ==
    {k \in 1..Len(db_images) :
        /\ k # query.image_id
        /\ db_images[k].user_id = current_user
        /\ db_images[k].ai_tags # Null
        /\ db_images[k].ai_description # Null}
\* the words of a description: the longest stretches without white space
LowerWords(s) ==
    {lower(SubSeq(s, i, j)) : <<i, j>> \in
        {p \in (1..Len(s)) \X (1..Len(s)) :
            /\ p[1] <= p[2]
            /\ \A k \in p[1]..p[2] : s[k] \notin Whitespace
            /\ p[1] = 1 \/ s[p[1] - 1] \in Whitespace
            /\ p[2] = Len(s) \/ s[p[2] + 1] \in Whitespace}}
\* the Jaccard index of two sets, 0 when both are empty
Jaccard(A, B) ==
    IF A \cup B = {} THEN [n |-> 0, d |-> 1]
    ELSE [n |-> Cardinality(A \cap B), d |-> Cardinality(A \cup B)]
TagIndex(k) ==
    Jaccard(Range(Source.ai_tags[1]), Range(db_images[k].ai_tags[1]))
WordIndex(k) ==
    Jaccard(LowerWords(Source.ai_description[1]),
            LowerWords(db_images[k].ai_description[1]))
\* 0.7 * tag similarity + 0.3 * description similarity of candidate k
Score(k) ==
    [n |-> 7 * TagIndex(k).n * WordIndex(k).d + 3 * WordIndex(k).n * TagIndex(k).d,
     d |-> 10 * TagIndex(k).d * WordIndex(k).d]
\* r thousandths is x rounded to three decimals
Rounds(x, r) ==
    /\ 2000 * x.n - 2 * r * x.d <= x.d
    /\ 2 * r * x.d - 2000 * x.n <= x.d
\* fraction x is at least / more than fraction y
Geq(x, y) == x.n * y.d >= y.n * x.d
Gt(x, y) == x.n * y.d > y.n * x.d
ThresholdOf(q) == [n |-> q.similarity_threshold, d |-> 10000]

(* --------------------------------- C21 --------------------------------- *)
\* C21: when the source image's tag list is empty or missing, or its
\* description is empty or missing, find_similar_images answers with the
\* insufficient-data error (400) and no candidate; and no search ends in the
\* internal error a division by zero would raise.
C21_InsufficientData ==
    Answered =>
        /\ Answer.status_code # 500
        /\ (SourceOwned /\ (Lacking(Source.ai_tags) \/ Lacking(Source.ai_description)))
               => /\ Answer.status_code = 400
                  /\ Answer.similar_images = << >>

\* a source without description is refused although the table holds a candidate
C21_Witness ==
    /\ Answered
    /\ SourceOwned
    /\ ~Lacking(Source.ai_tags)
    /\ Lacking(Source.ai_description)
    /\ Candidates # {}
    /\ Answer.status_code = 400

(* --------------------------------- C22 --------------------------------- *)
\* C22: every reported candidate carries, to three decimals, the Jaccard
\* index of the two tag sets, the Jaccard index of the two sets of lowercased
\* words (each 0 when both sets are empty) and 0.7 times the first plus 0.3
\* times the second, which lies between 0 and 1; the source {a,b,c} "a cat
\* sat" and the candidate {b,c,d} "a cat ran" give 0.5, 0.5 and 0.5.
C22_Scores ==
    (Answered /\ Answer.status_code = 200) =>
        \A k \in 1..Len(Answer.similar_images) :
            LET e == Answer.similar_images[k]
            IN  /\ e.id \in Candidates
                /\ Rounds(TagIndex(e.id), e.tag_similarity)
                /\ Rounds(WordIndex(e.id), e.description_similarity)
                /\ Rounds(Score(e.id), e.similarity_score)
                /\ e.similarity_score \in 0..1000
                /\ ( /\ Range(Source.ai_tags[1]) = {"a", "b", "c"}
                     /\ Source.ai_description[1] = <<"a", " ", "c", "a", "t", " ", "s", "a", "t">>
                     /\ Range(db_images[e.id].ai_tags[1]) = {"b", "c", "d"}
                     /\ db_images[e.id].ai_description[1] = <<"a", " ", "c", "a", "t", " ", "r", "a", "n">> )
                    => /\ e.tag_similarity = 500
                       /\ e.description_similarity = 500
                       /\ e.similarity_score = 500

\* two candidates are reported: one whose description differs from the
\* source's in case and white space only, one that shares no word with it
C22_Witness ==
    /\ Answered
    /\ Answer.status_code = 200
    /\ \E j, k \in 1..Len(Answer.similar_images) :
        /\ Answer.similar_images[j].description_similarity = 1000
        /\ db_images[Answer.similar_images[j].id].ai_description # Source.ai_description
        /\ Answer.similar_images[k].description_similarity = 0
        /\ Answer.similar_images[k].tag_similarity = 1000

(* --------------------------------- C23 --------------------------------- *)
\* the candidates whose combined score is at least the threshold
Passing == {k \in Candidates : Geq(Score(k), ThresholdOf(query))}
\* candidate j comes before candidate k: a higher combined score, or the
\* same score and an earlier place in the input
Before(j, k) ==
    \/ Gt(Score(j), Score(k))
    \/ Geq(Score(j), Score(k)) /\ j < k

\* C23: the returned list holds exactly the candidates whose combined score
\* is at least the threshold, by descending combined score, candidates of
\* equal score in input order, cut to the first `limit`; so it is at most
\* `limit` long and every reported score is at least the threshold.
C23_Ranked ==
    (Answered /\ Answer.status_code = 200) =>
        LET ids == [k \in 1..Len(Answer.similar_images) |->
                       Answer.similar_images[k].id]
        IN  /\ Len(ids) <= query.limit
            /\ Range(ids) \subseteq Passing
            /\ Len(ids) = Cardinality(Range(ids))
            /\ Len(ids) = query.limit \/ Range(ids) = Passing
            /\ \A i, j \in 1..Len(ids) : i < j => Before(ids[i], ids[j])
            /\ \A k \in Passing \ Range(ids) :
                 \A i \in 1..Len(ids) : Before(ids[i], k)
            /\ \A k \in 1..Len(ids) :
                 10 * Answer.similar_images[k].similarity_score
                     >= query.similarity_threshold

(* --------------------------------- C24 --------------------------------- *)
\* C24: on the success path and on the failure path alike, the step of
\* process_image that ends an attempt writes the final status (completed or
\* failed) first and drops the image's registry entry after it.
C24_PersistBeforeRelease ==
    [][ \A i \in Images :
            (i \in processing_tasks /\ i \notin processing_tasks')
                => finish' = <<"status", "entry">> ]_vars

(* --------------------------------- C25 --------------------------------- *)
\* the final values of the status column
Terminal == {"completed", "failed"}

\* C25: with every POST answered and a fair event loop, each image that
\* enters the registry eventually leaves it, and its persisted status
\* eventually becomes completed or failed.
C25_Terminates ==
    \A i \in Images :
        /\ (i \in processing_tasks) ~> (i \notin processing_tasks)
        /\ (i \in processing_tasks) ~> (db_status[i] \in Terminal)

\* C25 as amended: each image that enters the registry eventually leaves it,
\* and the step in which it leaves stores completed or failed as its status
\* unless that write fails, which is logged and goes no further.
C25_TerminatesOrWriteFails ==
    /\ \A i \in Images : (i \in processing_tasks) ~> (i \notin processing_tasks)
    /\ [][ \A i \in Images :
              (i \in processing_tasks /\ i \notin processing_tasks')
                  => \/ db_status'[i] \in Terminal /\ wrote' # << >>
                     \/ db_failures' > db_failures ]_vars

\* a task that had to wait for the minute window has been answered, has left
\* the registry and has left its image completed
C25_Witness ==
    /\ last.via \in PipelineVias
    /\ last.ret = "ok"
    /\ now > 0
    /\ released # << >>
    /\ released[Len(released)] = now
    /\ last.img \notin processing_tasks
    /\ db_status[last.img] = "completed"

(* --------------------------------- C26 --------------------------------- *)
\* a call that enters _check_rate_limit now finds a counter at its ceiling
AtCeiling ==
    \/ daily_usage >= MAX_REQUESTS_PER_DAY
    \/ monthly_usage >= MAX_REQUESTS_PER_MONTH

\* C26: the daily and the monthly counter never decrease; and once a counter
\* is at its ceiling, no call that enters _check_rate_limit starts to wait,
\* records a timestamp or increments a counter: a step that records or
\* increments then is the wake-up of a call that entered earlier.
C26_CeilingFinal ==
    [][ /\ daily_usage' >= daily_usage
        /\ monthly_usage' >= monthly_usage
        /\ AtCeiling =>
              /\ \A r \in BagToSet(tasks') :
                    r.pc = "sleeping" => CopiesIn(r, tasks') <= CopiesIn(r, tasks)
              /\ ( \/ daily_usage' # daily_usage
                   \/ monthly_usage' # monthly_usage
                   \/ Len(request_times') > Len(request_times) )
                    => \E r \in Sleepers : CopiesIn(r, tasks') < CopiesIn(r, tasks)
      ]_vars

\* a direct analysis was refused at the daily ceiling
C26_Witness ==
    /\ daily_usage >= MAX_REQUESTS_PER_DAY
    /\ last.via = "blob"
    /\ last.ret = "daily"
    /\ Sleepers = {}

(* --------------------------------- C27 --------------------------------- *)
\* C27: daily_usage equals monthly_usage in every state, and no call is ever
\* refused by the monthly test: the daily ceiling refuses first.
C27_DailyFirst ==
    /\ daily_usage = monthly_usage
    /\ last.ret # "monthly"

(* --------------------------------- C28 --------------------------------- *)
\* this step ends the sleep of coroutine r
Woken(r) == r.pc = "sleeping" /\ CopiesIn(r, tasks') < CopiesIn(r, tasks)

\* C28: the timestamp recorded for an admitted call is the time at which it
\* entered _check_rate_limit.  A call that waited is released when its delay
\* has elapsed and is recorded under its time of entry, that is the delay
\* earlier than its release; and it is admitted whatever the limits say then.
C28_RecordedAtEntry ==
    [][ /\ \A r \in Live :
              Woken(r) =>
                  /\ request_times' = Append(request_times, r.t0)
                  /\ released' = Append(released, now)
                  /\ now - (r.wake - r.t0) = r.t0
                  /\ daily_usage' = daily_usage + 1
                  /\ monthly_usage' = monthly_usage + 1
        /\ (Entered /\ Len(released') > Len(released)) =>
              /\ request_times'[Len(request_times')] = now
              /\ released'[Len(released')] = now ]_vars

\* a call that entered below the daily ceiling has been released above it,
\* recorded under a time before its release
C28_Witness ==
    /\ daily_usage > MAX_REQUESTS_PER_DAY
    /\ request_times # << >>
    /\ released # << >>
    /\ request_times[Len(request_times)] < released[Len(released)]
    /\ released[Len(released)] = now

(* --------------------------------- C29 --------------------------------- *)
\* the timestamps a check entered at time t keeps
WithinHour(times, t) == SelectSeq(times, LAMBDA x : t - x < Hour)

\* this step sends a POST to the vision API: a call has been admitted
Sent == Len(released') > Len(released)

\* C29: every admitted call adds one timestamp and one to each counter; the
\* answer to its POST, failure and timeout included, leaves timestamps and
\* counters as they are; and a self-test of the health check is admitted like
\* any analysis, whenever the tracker lets it through, without a look at the
\* task registry.
C29_NoRefund ==
    [][ /\ Sent =>
              /\ \E t \in {now} \cup {r.t0 : r \in Sleepers} :
                    \/ request_times' = Append(request_times, t)
                    \/ request_times' = Append(WithinHour(request_times, now), t)
              /\ daily_usage' = daily_usage + 1
              /\ monthly_usage' = monthly_usage + 1
        /\ answered' > answered => UNCHANGED quota
        /\ (served' = served + 1 /\ last'.via = "health") =>
              /\ processing_tasks' = processing_tasks
              /\ ( /\ ~AtCeiling
                   /\ Len(InWindow(request_times, now)) < MAX_REQUESTS_PER_MINUTE )
                    => /\ Sent
                       /\ daily_usage' = daily_usage + 1 ]_vars

\* the POST of a self-test is out while the registry is full
C29_Witness ==
    /\ Cardinality(processing_tasks) = max_concurrent
    /\ \E r \in Live : r.via = "health" /\ r.pc = "request"

(* --------------------------------- C30 --------------------------------- *)
\* C30: an image whose persisted status is processing has an entry in the
\* task registry, and an image that has an entry is persisted as processing
\* (as long as no write has been lost).
C30_ProcessingIffRegistered ==
    db_failures = 0 =>
        \A i \in Images : db_status[i] = "processing" <=> i \in processing_tasks

=============================================================================
